---- MODULE Spec2Model ----
(***************************************************************************)
(* A model of the System Poller (src/taskmgr.py, class SystemTaskManager)  *)
(* and of the Task Store described in spec.md section 4.1.                 *)
(*                                                                         *)
(* System Poller: two daemon threads (loop_fetch_processes,                *)
(* loop_fetch_stats) write shared fields that two Tk timer callbacks       *)
(* (update_ui_processes, update_ui_performance) read on the UI thread.     *)
(* A step of the model is one access to a shared field or one handler of   *)
(* the Tk event loop; code between two shared accesses touches only        *)
(* locals and is folded into the step that follows it.                     *)
(***************************************************************************)
EXTENDS Integers, Sequences, FiniteSets, TLC

VARIABLES
    \* ---- SystemTaskManager fields (taskmgr.py 47-53) ----
    current_tab,      \* self.current_tab
    running,          \* self.running
    processes_data,   \* self.processes_data: sequence of <<name, pid, mem, mem_clean>>
    cpu_usage,        \* self.cpu_usage
    mem_usage,        \* self.mem_usage
    total_mem,        \* self.total_mem
    \* ---- the three invocations of the poll loops ----
    pc,               \* position of each loop invocation
    slept,            \* seconds of the last time.sleep() each invocation completed
    total_kb,         \* local of loop_fetch_stats (line 229)
    used_kb,          \* local of loop_fetch_stats (line 230)
    src_output,       \* history: the tasklist output whose parse was last assigned to processes_data
    \* ---- the Tk side ----
    ui,               \* what the UI thread is executing ("idle": in mainloop)
    after_procs,      \* pending root.after callbacks of update_ui_processes
    after_perf,       \* pending root.after callbacks of update_ui_performance
    tree,             \* rows of self.tree: sequence of <<name, pid, mem>>
    selection,        \* index of the selected tree row, 0 when none
    lbl_cpu_val,      \* value shown by self.lbl_cpu_val
    progress_cpu,     \* self.progress_cpu['value']
    total_read,       \* local of update_ui_performance: self.total_mem as read at line 274
    lbl_mem_val,      \* what self.lbl_mem_val shows: <<total_mem read, used_percent read>>
    progress_mem,     \* self.progress_mem['value']
    dialog,           \* title of the last message box shown
    killed,           \* PIDs handed to taskkill, in order
    started,          \* targets handed to subprocess.Popen by run_task
    \* ---- Task Store (spec.md 4.1) ----
    tasks,            \* the in-memory task list
    clock,            \* the wall clock that stamps ids and created_at
    rendered,         \* the list as last rendered
    filter_mode,      \* All | Active | Completed
    submitted,        \* history: the title last handed to add
    error_shown       \* whether a user-visible error was surfaced

pollVars == <<pc, slept, running>>
procVars == <<processes_data, src_output>>
statVars == <<cpu_usage, mem_usage, total_mem, total_kb, used_kb>>
treeVars == <<tree, selection>>
perfVars == <<lbl_cpu_val, progress_cpu, total_read, lbl_mem_val, progress_mem>>
userVars == <<dialog, killed, started>>
timerVars == <<after_procs, after_perf>>
taskVars == <<tasks, clock, rendered, filter_mode, submitted, error_shown>>
vars == <<current_tab, ui, pollVars, procVars, statVars, treeVars, perfVars,
          userVars, timerVars, taskVars>>

(***************************************************************************)
(* Bounds                                                                  *)
(***************************************************************************)
\* longest tasklist output, in CSV rows
MaxRows == 2
\* longest task list of the Task Store
MaxTasks == 2
\* last tick of the Task Store's clock
MaxClock == 2

(***************************************************************************)
(* Text                                                                    *)
(***************************************************************************)
Digits == {"0", "1", "2", "3", "4", "5", "6", "7", "8", "9"}

DigitValue(c) ==
    CASE c = "0" -> 0 [] c = "1" -> 1 [] c = "2" -> 2 [] c = "3" -> 3
      [] c = "4" -> 4 [] c = "5" -> 5 [] c = "6" -> 6 [] c = "7" -> 7
      [] c = "8" -> 8 [] c = "9" -> 9

\* re.sub(r"[^0-9]", "", s): s without its non-digit characters
RECURSIVE re_sub_nondigits(_)
re_sub_nondigits(s) ==
    IF s = <<>> THEN <<>>
    ELSE IF Head(s) \in Digits THEN <<Head(s)>> \o re_sub_nondigits(Tail(s))
    ELSE re_sub_nondigits(Tail(s))

\* int(s) for a non-empty string of decimal digits
RECURSIVE int_of_digits(_)
int_of_digits(s) ==
    IF s = <<>> THEN 0
    ELSE 10 * int_of_digits(SubSeq(s, 1, Len(s) - 1)) + DigitValue(s[Len(s)])

(***************************************************************************)
(* loop_fetch_processes: the tasklist output and its parse                 *)
(***************************************************************************)
\* Rows of `tasklist /fo csv /nh` as csv.reader yields them: a list of fields.
\* The Mem Usage field is kept as characters, the others are opaque.
RowA == <<"a.exe", "11", "Console", "1", <<"5", " ", "K">>>>
RowB == <<"b.exe", "12", "Console", "1", <<"0", "5", " ", "K">>>>
RowC == <<"c.exe", "13", "Services", "0", <<"1", ",", "0", " ", "K">>>>
RowNoDigit == <<"d.exe", "14", "Services", "0", <<"N", "/", "A">>>>
RowShort == <<"INFO: No tasks are running.">>
Rows == {RowA, RowB, RowC, RowNoDigit, RowShort}

\* the sequences of at most n different elements of S: tasklist prints a
\* process (a PID) once
DistinctSeqsUpTo(S, n) ==
    UNION {{f \in [1..k -> S] : \A i, j \in 1..k : f[i] = f[j] => i = j} : k \in 0..n}

\* the tasklist outputs of each specification
WellFormedOutputs == DistinctSeqsUpTo({RowA, RowB, RowC}, MaxRows)
Outputs == DistinctSeqsUpTo({RowA, RowC, RowNoDigit, RowShort}, MaxRows)
FewOutputs == {<<RowA>>, <<RowC>>, <<RowNoDigit>>}

\* parse_rows with a row whose memory field has no digit skipped, not raised
RECURSIVE parse_rows_skip_bad(_, _)
parse_rows_skip_bad(rows, new_data) ==
    IF rows = <<>> THEN [ok |-> TRUE, new_data |-> new_data]
    ELSE LET row == Head(rows) IN
         IF Len(row) >= 5 /\ re_sub_nondigits(row[5]) # <<>>
         THEN parse_rows_skip_bad(Tail(rows),
                  Append(new_data, <<row[1], row[2], row[5],
                                     int_of_digits(re_sub_nondigits(row[5]))>>))
         ELSE parse_rows_skip_bad(Tail(rows), new_data)

\* lines 192-200: the for loop over the rows. ok = FALSE when int() raised
\* ValueError; new_data is then the list built before the bad row.
RECURSIVE parse_rows(_, _)
parse_rows(rows, new_data) ==
    IF rows = <<>> THEN [ok |-> TRUE, new_data |-> new_data]
    ELSE LET row == Head(rows) IN
         IF Len(row) >= 5
         THEN LET mem == row[5]
                  digits == re_sub_nondigits(mem)
              IN  IF digits = <<>>
                  THEN [ok |-> FALSE, new_data |-> new_data]
                  ELSE parse_rows(Tail(rows),
                           Append(new_data, <<row[1], row[2], mem, int_of_digits(digits)>>))
         ELSE parse_rows(Tail(rows), new_data)

Loops == {"thread_procs", "end_task"}

\* InsertByMem with x put before the entries of equal key
RECURSIVE InsertByMemUnstable(_, _)
InsertByMemUnstable(x, s) ==
    IF s = <<>> THEN <<x>>
    ELSE IF Head(s)[4] > x[4] THEN <<Head(s)>> \o InsertByMemUnstable(x, Tail(s))
    ELSE <<x>> \o s

\* insertion of x behind every entry whose key is >= its own: Python's sort is
\* stable and reverse=True keeps equal keys in their original order
RECURSIVE InsertByMem(_, _)
InsertByMem(x, s) ==
    IF s = <<>> THEN <<x>>
    ELSE IF Head(s)[4] >= x[4] THEN <<Head(s)>> \o InsertByMem(x, Tail(s))
    ELSE <<x>> \o s

\* sorted(data, key=lambda x: x[3], reverse=True): stable, descending
RECURSIVE sorted_by_mem(_)
sorted_by_mem(data) ==
    IF data = <<>> THEN <<>>
    ELSE InsertByMem(data[Len(data)], sorted_by_mem(SubSeq(data, 1, Len(data) - 1)))

\* line 260: the values inserted for one entry
TreeRow(p) == <<p[1], p[2], p[3]>>

\* lines 245-260: what the tree holds after the clear and the refill
refill(data) == [i \in 1..Len(data) |-> TreeRow(sorted_by_mem(data)[i])]

\* line 183 for one invocation of loop_fetch_processes. The invocation made
\* by end_task (line 302) continues, when the loop exits, with line 303: the
\* direct call of update_ui_processes (lines 242-265), and returns to mainloop.
loop_while(l) ==
    /\ pc[l] = "while"
    /\ IF running
       THEN /\ pc' = [pc EXCEPT ![l] = "try"]
            /\ UNCHANGED <<ui, treeVars, timerVars>>
       ELSE IF l = "end_task"
            THEN /\ pc' = [pc EXCEPT ![l] = "none"]
                 /\ IF current_tab = "Processes"
                    THEN tree' = refill(processes_data) /\ selection' = 0
                    ELSE UNCHANGED treeVars
                 /\ after_procs' = after_procs + 1
                 /\ ui' = "idle"
                 /\ UNCHANGED after_perf
            ELSE /\ pc' = [pc EXCEPT ![l] = "returned"]
                 /\ UNCHANGED <<ui, treeVars, timerVars>>
    /\ UNCHANGED <<current_tab, slept, running, procVars, statVars, perfVars,
                   userVars, taskVars>>

\* try_processes with the assignment moved into the for loop: the rows
\* parsed before a bad row are already published when int() raises
try_processes_publish_in_loop(l, cmd_ok, output) ==
    /\ pc[l] = "try"
    /\ LET r == parse_rows(output, <<>>) IN
       IF cmd_ok
       THEN /\ processes_data' = r.new_data
            /\ src_output' = output
            /\ pc' = [pc EXCEPT ![l] = IF r.ok THEN "sleep" ELSE "except"]
       ELSE /\ pc' = [pc EXCEPT ![l] = "except"]
            /\ UNCHANGED procVars
    /\ UNCHANGED <<current_tab, ui, slept, running, statVars, treeVars, perfVars,
                   userVars, timerVars, taskVars>>

\* lines 187-202 with the command's outcome given: check_output raises
\* (cmd_ok = FALSE) or returns output; the parse; the one assignment.
try_processes(l, cmd_ok, output) ==
    /\ pc[l] = "try"
    /\ LET r == parse_rows(output, <<>>) IN
       IF cmd_ok /\ r.ok
       THEN /\ processes_data' = r.new_data
            /\ src_output' = output
            /\ pc' = [pc EXCEPT ![l] = "sleep"]
       ELSE /\ pc' = [pc EXCEPT ![l] = "except"]
            /\ UNCHANGED procVars
    /\ UNCHANGED <<current_tab, ui, slept, running, statVars, treeVars, perfVars,
                   userVars, timerVars, taskVars>>

\* except_processes with a `continue` in the handler: the fetch is retried at once
except_retry(l) ==
    /\ pc[l] = "except"
    /\ pc' = [pc EXCEPT ![l] = "while"]
    /\ UNCHANGED <<current_tab, ui, slept, running, procVars, statVars, treeVars,
                   perfVars, userVars, timerVars, taskVars>>

\* lines 204-205: the handler prints and falls through to the sleep
except_processes(l) ==
    /\ pc[l] = "except"
    /\ pc' = [pc EXCEPT ![l] = "sleep"]
    /\ UNCHANGED <<current_tab, ui, slept, running, procVars, statVars, treeVars,
                   perfVars, userVars, timerVars, taskVars>>

\* line 207: time.sleep(3), then back to the loop test
SleepProcesses == 3
sleep_processes(l) ==
    /\ pc[l] = "sleep"
    /\ pc' = [pc EXCEPT ![l] = "while"]
    /\ slept' = [slept EXCEPT ![l] = SleepProcesses]
    /\ UNCHANGED <<current_tab, ui, running, procVars, statVars, treeVars,
                   perfVars, userVars, timerVars, taskVars>>

loop_fetch_processes(l, outs) ==
    \/ loop_while(l)
    \/ \E cmd_ok \in BOOLEAN, output \in outs : try_processes(l, cmd_ok, output)
    \/ except_processes(l)
    \/ sleep_processes(l)

(***************************************************************************)
(* loop_fetch_stats                                                        *)
(***************************************************************************)
\* outputs of `wmic cpu get loadpercentage`, as characters
CpuOut7 == <<"L", "o", "a", "d", "\n", "7", " ", "\n">>
CpuOut42 == <<"L", "o", "a", "d", "\n", "4", "2", "\n">>
CpuOutBlank == <<"L", "o", "a", "d", "\n", " ", "\n">>
CpuOuts == {CpuOut7, CpuOut42, CpuOutBlank}
FewCpuOuts == {CpuOut7}

\* outputs of `wmic OS get FreePhysicalMemory,TotalVisibleMemorySize /Value`:
\* the key=value lines, each <<key, value characters>>
MemLine(k, v) == <<k, v>>
MemOut_1_4 == <<MemLine("FreePhysicalMemory", <<"1">>), MemLine("TotalVisibleMemorySize", <<"4">>)>>
MemOut_2_4 == <<MemLine("FreePhysicalMemory", <<"2">>), MemLine("TotalVisibleMemorySize", <<"4">>)>>
MemOut_0_0 == <<MemLine("FreePhysicalMemory", <<"0">>), MemLine("TotalVisibleMemorySize", <<"0">>)>>
MemOutNoTotal == <<MemLine("FreePhysicalMemory", <<"1">>), MemLine("TotalVisibleMemorySize", <<>>)>>
MemOuts == {MemOut_1_4, MemOut_2_4, MemOut_0_0, MemOutNoTotal}
FewMemOuts == {MemOut_1_4, MemOut_0_0}

\* the longest prefix of s made of digits
RECURSIVE leading_digits(_)
leading_digits(s) ==
    IF s = <<>> \/ Head(s) \notin Digits THEN <<>>
    ELSE <<Head(s)>> \o leading_digits(Tail(s))

\* re.search(r"\d+", s).group(): the first run of digits, <<>> when no match
RECURSIVE re_search_digits(_)
re_search_digits(s) ==
    IF s = <<>> THEN <<>>
    ELSE IF Head(s) \in Digits THEN leading_digits(s)
    ELSE re_search_digits(Tail(s))

\* re.search(key + r"=(\d+)", mem_out).group(1): the digits that follow the
\* first "key=" followed by a digit, <<>> when no match
RECURSIVE re_search_value(_, _)
re_search_value(key, mem_out) ==
    IF mem_out = <<>> THEN <<>>
    ELSE IF Head(mem_out)[1] = key /\ leading_digits(Head(mem_out)[2]) # <<>>
         THEN leading_digits(Head(mem_out)[2])
         ELSE re_search_value(key, Tail(mem_out))

Stats == "thread_stats"

\* line 211
stats_while ==
    /\ pc[Stats] = "while"
    /\ pc' = [pc EXCEPT ![Stats] = IF running THEN "L214" ELSE "returned"]
    /\ UNCHANGED <<current_tab, ui, slept, running, procVars, statVars, treeVars,
                   perfVars, userVars, timerVars, taskVars>>

\* lines 214-218: the CPU command, the match, the assignment when it matched
stats_cpu(cmd_ok, cpu_out) ==
    /\ pc[Stats] = "L214"
    /\ IF cmd_ok
       THEN LET cpu_match == re_search_digits(cpu_out) IN
            /\ cpu_usage' = IF cpu_match # <<>> THEN int_of_digits(cpu_match) ELSE cpu_usage
            /\ pc' = [pc EXCEPT ![Stats] = "L222"]
       ELSE /\ pc' = [pc EXCEPT ![Stats] = "except"]
            /\ UNCHANGED cpu_usage
    /\ UNCHANGED <<current_tab, ui, slept, running, procVars, mem_usage, total_mem,
                   total_kb, used_kb, treeVars, perfVars, userVars, timerVars, taskVars>>

\* lines 222-230: the memory command, the two matches, the locals
stats_mem(cmd_ok, mem_out) ==
    /\ pc[Stats] = "L222"
    /\ IF cmd_ok
       THEN LET free_match == re_search_value("FreePhysicalMemory", mem_out)
                total_match == re_search_value("TotalVisibleMemorySize", mem_out)
            IN  IF free_match # <<>> /\ total_match # <<>>
                THEN /\ total_kb' = int_of_digits(total_match)
                     /\ used_kb' = int_of_digits(total_match) - int_of_digits(free_match)
                     /\ pc' = [pc EXCEPT ![Stats] = "L232"]
                ELSE /\ pc' = [pc EXCEPT ![Stats] = "sleep"]
                     /\ UNCHANGED <<total_kb, used_kb>>
       ELSE /\ pc' = [pc EXCEPT ![Stats] = "except"]
            /\ UNCHANGED <<total_kb, used_kb>>
    /\ UNCHANGED <<current_tab, ui, slept, running, procVars, cpu_usage, mem_usage,
                   total_mem, treeVars, perfVars, userVars, timerVars, taskVars>>

\* stats_set_total with the percentage computed first and both fields stored together
stats_set_both ==
    /\ pc[Stats] = "L232"
    /\ total_mem' = total_kb
    /\ mem_usage' = IF total_kb = 0 THEN mem_usage ELSE (used_kb * 100) \div total_kb
    /\ pc' = [pc EXCEPT ![Stats] = "L233"]
    /\ UNCHANGED <<current_tab, ui, slept, running, procVars, cpu_usage,
                   total_kb, used_kb, treeVars, perfVars, userVars, timerVars, taskVars>>

\* line 232: self.total_mem = total_kb
stats_set_total ==
    /\ pc[Stats] = "L232"
    /\ total_mem' = total_kb
    /\ pc' = [pc EXCEPT ![Stats] = "L233"]
    /\ UNCHANGED <<current_tab, ui, slept, running, procVars, cpu_usage, mem_usage,
                   total_kb, used_kb, treeVars, perfVars, userVars, timerVars, taskVars>>

\* line 233: self.mem_usage = (used_kb / total_kb) * 100, or ZeroDivisionError.
\* The quotient is exact for the outputs drawn here (total 4, used 2 or 3).
\* The locals are dead after this line and are cleared.
stats_set_usage ==
    /\ pc[Stats] = "L233"
    /\ IF total_kb = 0
       THEN /\ pc' = [pc EXCEPT ![Stats] = "except"]
            /\ UNCHANGED mem_usage
       ELSE /\ mem_usage' = (used_kb * 100) \div total_kb
            /\ pc' = [pc EXCEPT ![Stats] = "sleep"]
    /\ total_kb' = 0
    /\ used_kb' = 0
    /\ UNCHANGED <<current_tab, ui, slept, running, procVars, cpu_usage, total_mem,
                   treeVars, perfVars, userVars, timerVars, taskVars>>

\* lines 235-236
stats_except ==
    /\ pc[Stats] = "except"
    /\ pc' = [pc EXCEPT ![Stats] = "sleep"]
    /\ UNCHANGED <<current_tab, ui, slept, running, procVars, statVars, treeVars,
                   perfVars, userVars, timerVars, taskVars>>

\* line 238: time.sleep(1)
SleepStats == 1
stats_sleep ==
    /\ pc[Stats] = "sleep"
    /\ pc' = [pc EXCEPT ![Stats] = "while"]
    /\ slept' = [slept EXCEPT ![Stats] = SleepStats]
    /\ UNCHANGED <<current_tab, ui, running, procVars, statVars, treeVars,
                   perfVars, userVars, timerVars, taskVars>>

loop_fetch_stats(cpus, mems) ==
    \/ stats_while
    \/ \E cmd_ok \in BOOLEAN, cpu_out \in cpus : stats_cpu(cmd_ok, cpu_out)
    \/ \E cmd_ok \in BOOLEAN, mem_out \in mems : stats_mem(cmd_ok, mem_out)
    \/ stats_set_total
    \/ stats_set_usage
    \/ stats_except
    \/ stats_sleep

(***************************************************************************)
(* The UI thread: Tk timer callbacks                                       *)
(***************************************************************************)
Tabs == {"Processes", "Performance"}

\* lines 241-265, run from a pending root.after callback: the callback is
\* consumed, the tree is rebuilt from one read of processes_data (line 257)
\* when the Processes tab is shown, and the callback is scheduled again.
update_ui_processes ==
    /\ ui = "idle"
    /\ after_procs > 0
    /\ IF current_tab = "Processes"
       THEN tree' = refill(processes_data) /\ selection' = 0
       ELSE UNCHANGED treeVars
    /\ after_procs' = (after_procs - 1) + 1
    /\ UNCHANGED <<current_tab, ui, pollVars, procVars, statVars, perfVars,
                   userVars, after_perf, taskVars>>

\* lines 267-271 (first read of cpu_usage), run from a pending callback. On
\* another tab the handler only reschedules itself (line 281).
update_ui_performance ==
    /\ ui = "idle"
    /\ after_perf > 0
    /\ IF current_tab = "Performance"
       THEN /\ lbl_cpu_val' = cpu_usage
            /\ ui' = "L271"
            /\ after_perf' = after_perf - 1
       ELSE /\ after_perf' = (after_perf - 1) + 1
            /\ UNCHANGED <<lbl_cpu_val, ui>>
    /\ UNCHANGED <<current_tab, pollVars, procVars, statVars, treeVars, progress_cpu,
                   total_read, lbl_mem_val, progress_mem, userVars, after_procs, taskVars>>

\* line 271: the second read of cpu_usage
perf_progress_cpu ==
    /\ ui = "L271"
    /\ progress_cpu' = cpu_usage
    /\ ui' = "L274"
    /\ UNCHANGED <<current_tab, pollVars, procVars, statVars, treeVars, lbl_cpu_val,
                   total_read, lbl_mem_val, progress_mem, userVars, timerVars, taskVars>>

\* line 274: the read of total_mem
perf_read_total ==
    /\ ui = "L274"
    /\ total_read' = total_mem
    /\ ui' = "L275"
    /\ UNCHANGED <<current_tab, pollVars, procVars, statVars, treeVars, lbl_cpu_val,
                   progress_cpu, lbl_mem_val, progress_mem, userVars, timerVars, taskVars>>

\* lines 275-281: the read of mem_usage, the two widgets, the rescheduling.
\* The label's text is a function of the two values read; they stand for it.
perf_read_usage ==
    /\ ui = "L275"
    /\ lbl_mem_val' = <<total_read, mem_usage>>
    /\ progress_mem' = mem_usage
    /\ total_read' = 0
    /\ after_perf' = after_perf + 1
    /\ ui' = "idle"
    /\ UNCHANGED <<current_tab, pollVars, procVars, statVars, treeVars, lbl_cpu_val,
                   progress_cpu, userVars, after_procs, taskVars>>

(***************************************************************************)
(* The UI thread: user actions                                             *)
(***************************************************************************)
\* lines 164-178
switch_tab(tab_name) ==
    /\ ui = "idle"
    /\ current_tab' = tab_name
    /\ UNCHANGED <<ui, pollVars, procVars, statVars, treeVars, perfVars, userVars,
                   timerVars, taskVars>>

\* the user clicks a row of the tree (selectmode="browse", line 99); the tree
\* is on screen only while the Processes frame is packed
select_row(i) ==
    /\ ui = "idle"
    /\ current_tab = "Processes"
    /\ i \in 1..Len(tree)
    /\ selection' = i
    /\ UNCHANGED <<current_tab, ui, pollVars, procVars, statVars, tree, perfVars,
                   userVars, timerVars, taskVars>>

\* lines 154-162: target is what askstring returned ("" for Cancel or an
\* empty entry), popen_ok whether Popen started it
Targets == {"", "notepad"}
run_task(target, popen_ok) ==
    /\ ui = "idle"
    /\ IF target # ""
       THEN IF popen_ok
            THEN started' = started \cup {target} /\ UNCHANGED dialog
            ELSE dialog' = "Error" /\ UNCHANGED started
       ELSE UNCHANGED <<dialog, started>>
    /\ UNCHANGED <<current_tab, ui, pollVars, procVars, statVars, treeVars, perfVars,
                   killed, timerVars, taskVars>>

\* end_task that takes the PID from the Name column (values[0]) of the selected row
end_task_kills_by_name(yes, run_ok) ==
    /\ ui = "idle"
    /\ current_tab = "Processes"
    /\ IF selection # 0 /\ yes /\ run_ok
       THEN /\ killed' = Append(killed, tree[selection][1])
            /\ pc' = [pc EXCEPT !["end_task"] = "while"]
            /\ ui' = "end_task"
            /\ UNCHANGED dialog
       ELSE /\ dialog' = IF selection = 0 THEN "No Selection"
                         ELSE IF yes THEN "Error" ELSE dialog
            /\ UNCHANGED <<ui, pc, killed>>
    /\ UNCHANGED <<current_tab, slept, running, procVars, statVars, treeVars,
                   perfVars, started, timerVars, taskVars>>

\* end_task that clears self.running before its refresh
end_task_stops_pollers(yes, run_ok) ==
    /\ ui = "idle"
    /\ current_tab = "Processes"
    /\ IF selection # 0 /\ yes /\ run_ok
       THEN /\ killed' = Append(killed, tree[selection][2])
            /\ pc' = [pc EXCEPT !["end_task"] = "while"]
            /\ ui' = "end_task"
            /\ running' = FALSE
            /\ UNCHANGED dialog
       ELSE /\ dialog' = IF selection = 0 THEN "No Selection"
                         ELSE IF yes THEN "Error" ELSE dialog
            /\ UNCHANGED <<ui, pc, killed, running>>
    /\ UNCHANGED <<current_tab, slept, procVars, statVars, treeVars,
                   perfVars, started, timerVars, taskVars>>

\* lines 288-302: the button sits in the Processes frame. yes is the answer
\* to askyesno, run_ok whether subprocess.run returned. After taskkill the
\* handler calls loop_fetch_processes itself (line 302) and is inside it.
end_task(yes, run_ok) ==
    /\ ui = "idle"
    /\ current_tab = "Processes"
    /\ IF selection = 0
       THEN /\ dialog' = "No Selection"
            /\ UNCHANGED <<ui, pc, killed>>
       ELSE IF yes
            THEN IF run_ok
                 THEN /\ killed' = Append(killed, tree[selection][2])
                      /\ pc' = [pc EXCEPT !["end_task"] = "while"]
                      /\ ui' = "end_task"
                      /\ UNCHANGED dialog
                 ELSE /\ dialog' = "Error"
                      /\ UNCHANGED <<ui, pc, killed>>
            ELSE UNCHANGED <<ui, pc, killed, dialog>>
    /\ UNCHANGED <<current_tab, slept, running, procVars, statVars, treeVars,
                   perfVars, started, timerVars, taskVars>>

(***************************************************************************)
(* Task Store (spec.md 3 and 4.1)                                          *)
(***************************************************************************)
Whitespace == {" ", "\t", "\n"}

\* the titles the user may type
TitleInputs == {<<>>, <<" ">>, <<" ", "\t">>, <<"a">>, <<" ", "b", " ">>}

RECURSIVE lstrip(_)
lstrip(s) ==
    IF s = <<>> THEN <<>>
    ELSE IF Head(s) \in Whitespace THEN lstrip(Tail(s)) ELSE s

RECURSIVE rstrip(_)
rstrip(s) ==
    IF s = <<>> THEN <<>>
    ELSE IF s[Len(s)] \in Whitespace THEN rstrip(SubSeq(s, 1, Len(s) - 1)) ELSE s

strip(s) == rstrip(lstrip(s))

DigitChar(n) ==
    CASE n = 0 -> "0" [] n = 1 -> "1" [] n = 2 -> "2" [] n = 3 -> "3" [] n = 4 -> "4"
      [] n = 5 -> "5" [] n = 6 -> "6" [] n = 7 -> "7" [] n = 8 -> "8" [] n = 9 -> "9"

\* the timestamp string of a clock tick, fixed width
Timestamp(c) == <<DigitChar((c \div 10) % 10), DigitChar(c % 10)>>

\* lexicographic string comparison a <= b
RECURSIVE LexLeq(_, _)
LexLeq(a, b) ==
    IF a = <<>> THEN TRUE
    ELSE IF b = <<>> THEN FALSE
    ELSE IF Head(a) = Head(b) THEN LexLeq(Tail(a), Tail(b))
    ELSE DigitValue(Head(a)) < DigitValue(Head(b))

\* TaskLeq on the creation timestamp alone
TaskLeqByDate(a, b) == LexLeq(a.created_at, b.created_at)

\* the sort's order: incomplete before completed, then created_at ascending
TaskLeq(a, b) ==
    IF a.completed = b.completed THEN LexLeq(a.created_at, b.created_at)
    ELSE ~a.completed

RECURSIVE InsertTask(_, _)
InsertTask(t, s) ==
    IF s = <<>> THEN <<t>>
    ELSE IF TaskLeq(Head(s), t) THEN <<Head(s)>> \o InsertTask(t, Tail(s))
    ELSE <<t>> \o s

RECURSIVE sort_tasks(_)
sort_tasks(s) ==
    IF s = <<>> THEN <<>>
    ELSE InsertTask(s[Len(s)], sort_tasks(SubSeq(s, 1, Len(s) - 1)))

FilterModes == {"All", "Active", "Completed"}

Keep(t, mode) ==
    CASE mode = "All" -> TRUE
      [] mode = "Active" -> ~t.completed
      [] mode = "Completed" -> t.completed

RECURSIVE filter_tasks(_, _)
filter_tasks(s, mode) ==
    IF s = <<>> THEN <<>>
    ELSE IF Keep(Head(s), mode) THEN <<Head(s)>> \o filter_tasks(Tail(s), mode)
    ELSE filter_tasks(Tail(s), mode)

render(s, mode) == sort_tasks(filter_tasks(s, mode))

pollerVars == <<current_tab, ui, pollVars, procVars, statVars, treeVars, perfVars,
                userVars, timerVars>>

\* the wall clock advances
tick ==
    /\ clock < MaxClock
    /\ clock' = clock + 1
    /\ UNCHANGED <<tasks, rendered, filter_mode, submitted, error_shown, pollerVars>>

\* persist, then re-render: a failed save surfaces an error and keeps the mutation
persist_and_render(new_tasks, save_ok) ==
    /\ tasks' = new_tasks
    /\ error_shown' = (error_shown \/ ~save_ok)
    /\ rendered' = render(new_tasks, filter_mode)

\* add that rejects only the empty title
add_nonempty(title, save_ok) ==
    /\ Len(tasks) < MaxTasks
    /\ submitted' = title
    /\ IF title = <<>>
       THEN UNCHANGED <<tasks, rendered, error_shown>>
       ELSE persist_and_render(
                Append(tasks, [id |-> Timestamp(clock), title |-> title,
                               completed |-> FALSE, created_at |-> Timestamp(clock)]),
                save_ok)
    /\ UNCHANGED <<clock, filter_mode, pollerVars>>

add(title, save_ok) ==
    /\ Len(tasks) < MaxTasks
    /\ submitted' = title
    /\ IF strip(title) = <<>>
       THEN UNCHANGED <<tasks, rendered, error_shown>>
       ELSE persist_and_render(
                Append(tasks, [id |-> Timestamp(clock), title |-> strip(title),
                               completed |-> FALSE, created_at |-> Timestamp(clock)]),
                save_ok)
    /\ UNCHANGED <<clock, filter_mode, pollerVars>>

toggle(id, save_ok) ==
    /\ \E i \in 1..Len(tasks) : tasks[i].id = id
    /\ persist_and_render(
           [i \in 1..Len(tasks) |->
               IF tasks[i].id = id
               THEN [tasks[i] EXCEPT !.completed = ~tasks[i].completed]
               ELSE tasks[i]],
           save_ok)
    /\ UNCHANGED <<clock, filter_mode, submitted, pollerVars>>

RECURSIVE without_id(_, _)
without_id(s, id) ==
    IF s = <<>> THEN <<>>
    ELSE IF Head(s).id = id THEN without_id(Tail(s), id)
    ELSE <<Head(s)>> \o without_id(Tail(s), id)

delete(id, confirmed, save_ok) ==
    /\ IF confirmed
       THEN persist_and_render(without_id(tasks, id), save_ok)
       ELSE UNCHANGED <<tasks, rendered, error_shown>>
    /\ UNCHANGED <<clock, filter_mode, submitted, pollerVars>>

set_filter(mode) ==
    /\ filter_mode' = mode
    /\ rendered' = render(tasks, mode)
    /\ UNCHANGED <<tasks, clock, submitted, error_shown, pollerVars>>

Ids == {Timestamp(c) : c \in 0..MaxClock}

(***************************************************************************)
(* Specifications                                                          *)
(***************************************************************************)
\* the state __init__ leaves (lines 47-63): both threads started, both
\* callbacks pending, the widgets as setup_layout built them; an empty store
Init ==
    /\ current_tab = "Processes"
    /\ running = TRUE
    /\ processes_data = <<>>
    /\ cpu_usage = 0
    /\ mem_usage = 0
    /\ total_mem = 0
    /\ pc = [l \in Loops \cup {Stats} |-> IF l = "end_task" THEN "none" ELSE "while"]
    /\ slept = [l \in Loops \cup {Stats} |-> 0]
    /\ total_kb = 0
    /\ used_kb = 0
    /\ src_output = <<>>
    /\ ui = "idle"
    /\ after_procs = 1
    /\ after_perf = 1
    /\ tree = <<>>
    /\ selection = 0
    /\ lbl_cpu_val = 0
    /\ progress_cpu = 0
    /\ total_read = 0
    /\ lbl_mem_val = <<0, 0>>
    /\ progress_mem = 0
    /\ dialog = ""
    /\ killed = <<>>
    /\ started = {}
    /\ tasks = <<>>
    /\ clock = 0
    /\ rendered = <<>>
    /\ filter_mode = "All"
    /\ submitted = <<>>
    /\ error_shown = FALSE

PollProcesses(outs) == \E l \in Loops : loop_fetch_processes(l, outs)

UiPerformance ==
    \/ update_ui_performance
    \/ perf_progress_cpu
    \/ perf_read_total
    \/ perf_read_usage

User ==
    \/ \E tab_name \in Tabs : switch_tab(tab_name)
    \/ \E i \in 1..MaxRows : select_row(i)
    \/ \E target \in Targets, popen_ok \in BOOLEAN : run_task(target, popen_ok)
    \/ \E yes \in BOOLEAN, run_ok \in BOOLEAN : end_task(yes, run_ok)

\* the whole System Poller, over a few command outputs
Next ==
    \/ PollProcesses(FewOutputs)
    \/ loop_fetch_stats(FewCpuOuts, FewMemOuts)
    \/ update_ui_processes
    \/ UiPerformance
    \/ User

Spec == Init /\ [][Next]_vars

\* the process list's side of the System Poller with every user action on
\* it, over well-formed and malformed tasklist outputs
NextProcesses ==
    \/ PollProcesses(Outputs)
    \/ update_ui_processes
    \/ \E tab_name \in Tabs : switch_tab(tab_name)
    \/ \E i \in 1..MaxRows : select_row(i)
    \/ \E yes \in BOOLEAN, run_ok \in BOOLEAN : end_task(yes, run_ok)

SpecProcesses == Init /\ [][NextProcesses]_vars

\* the poller thread and the tree's refresh, over every well-formed output
NextDisplay ==
    \/ loop_fetch_processes("thread_procs", WellFormedOutputs)
    \/ update_ui_processes
    \/ \E tab_name \in Tabs : switch_tab(tab_name)

SpecDisplay == Init /\ [][NextDisplay]_vars

\* the stats' side of the System Poller, over every wmic output
NextStats ==
    \/ loop_fetch_stats(CpuOuts, MemOuts)
    \/ UiPerformance
    \/ \E tab_name \in Tabs : switch_tab(tab_name)

SpecStats == Init /\ [][NextStats]_vars

\* the Task Store
NextTasks ==
    \/ tick
    \/ \E title \in TitleInputs, save_ok \in BOOLEAN : add(title, save_ok)
    \/ \E id \in Ids, save_ok \in BOOLEAN : toggle(id, save_ok)
    \/ \E id \in Ids, confirmed \in BOOLEAN, save_ok \in BOOLEAN : delete(id, confirmed, save_ok)
    \/ \E mode \in FilterModes : set_filter(mode)

SpecTasks == Init /\ [][NextTasks]_vars

\* threads and Tk timers are scheduled fairly; the user need not act
Fairness ==
    /\ \A l \in Loops : WF_vars(loop_fetch_processes(l, FewOutputs))
    /\ WF_vars(loop_fetch_stats(FewCpuOuts, FewMemOuts))
    /\ WF_vars(update_ui_processes)
    /\ WF_vars(UiPerformance)

FairSpec == Spec /\ Fairness

(***************************************************************************)
(* Properties                                                              *)
(***************************************************************************)
AllLoops == Loops \cup {Stats}

\* the positions inside the try block of either loop
InTry == {"try", "L214", "L222", "L232", "L233"}

\* C1: an error in an iteration of loop_fetch_processes or loop_fetch_stats
\* never ends the loop. Whatever leaves the try block lands in the handler or
\* in the sleep; the handler goes only to the sleep, never back to the fetch;
\* the sleep (3 s for processes, 1 s for stats) is the only way back to the
\* loop test; and the loop test, running being true, starts the next fetch.
C1_ErrorsNeverEndTheLoop ==
    [][\A l \in AllLoops :
        /\ (pc[l] \in InTry /\ pc'[l] \notin InTry) => pc'[l] \in {"except", "sleep"}
        /\ (pc[l] = "except" /\ pc'[l] # "except") => pc'[l] = "sleep"
        /\ (pc[l] = "sleep" /\ pc'[l] # "sleep") =>
               /\ pc'[l] = "while"
               /\ slept'[l] = (IF l = Stats THEN 1 ELSE 3)
        /\ (pc'[l] = "while" /\ pc[l] # "while") => pc[l] \in {"sleep", "none"}
        /\ (pc[l] = "while" /\ pc'[l] # "while" /\ running) => pc'[l] \in InTry
      ]_vars

\* C1 witness: the stats loop polls again after an iteration that failed at
\* the division (total_mem 0 beside an older percentage), while the process
\* loop, past a first sleep, is in its handler.
C1_LoopsOnAfterAnError ==
    /\ total_mem = 0 /\ mem_usage > 0 /\ pc[Stats] = "L222" /\ slept[Stats] = 1
    /\ pc["thread_procs"] = "except" /\ slept["thread_procs"] = 3

\* what one poll stores when both matches succeed and the division does not fail
PollResult(mem_out) ==
    LET free == int_of_digits(re_search_value("FreePhysicalMemory", mem_out))
        total == int_of_digits(re_search_value("TotalVisibleMemorySize", mem_out))
    IN  <<total, ((total - free) * 100) \div total>>

\* a <<total_mem, mem_usage>> pair that one iteration alone can have produced
FromOnePoll(v) ==
    \/ v = <<0, 0>>
    \/ \E mem_out \in MemOuts :
          /\ re_search_value("FreePhysicalMemory", mem_out) # <<>>
          /\ re_search_value("TotalVisibleMemorySize", mem_out) # <<>>
          /\ int_of_digits(re_search_value("TotalVisibleMemorySize", mem_out)) # 0
          /\ v = PollResult(mem_out)

\* C2: the two memory fields are published by two separate, unguarded steps,
\* total_mem first: the step of line 232 stores this poll's total and leaves
\* mem_usage as it was, and when the division of line 233 fails the total
\* stays stored beside the older mem_usage.
C2_TotalIsStoredBeforeUsage ==
    [][/\ (pc[Stats] = "L232" /\ pc'[Stats] # "L232") =>
              (total_mem' = total_kb /\ mem_usage' = mem_usage /\ pc'[Stats] = "L233")
       /\ (pc[Stats] = "L233" /\ pc'[Stats] = "except") =>
              (total_mem' = 0 /\ total_mem = 0 /\ mem_usage' = mem_usage)
      ]_vars

\* C2 witness: a refresh has shown a memory snapshot no single poll produced:
\* the total 0 of the newest poll, whose division failed, beside the
\* percentage of an earlier one.
C2_TornSnapshotShown ==
    /\ current_tab = "Performance" /\ ui = "idle"
    /\ ~FromOnePoll(lbl_mem_val)
    /\ lbl_mem_val = <<total_mem, mem_usage>> /\ total_mem = 0

\* C3: whenever the Processes tab is shown and the tree does not show the
\* stored processes_data, a later refresh shows it (or the tab is left).
C3_PublishedIsDisplayed ==
    (current_tab = "Processes" /\ tree # refill(processes_data))
        ~> (current_tab # "Processes" \/ tree = refill(processes_data))

\* C4: running is true in every reachable state and no invocation of a poll
\* loop has returned: the threads never, and the invocation end_task makes
\* (one per PID handed to taskkill) keeps the UI thread inside the loop.
C4_PollersNeverStop ==
    /\ running = TRUE
    /\ \A l \in AllLoops : pc[l] # "returned"
    /\ killed # <<>> => (pc["end_task"] \in {"while", "try", "except", "sleep"} /\ ui = "end_task")

\* C4 witness: all three invocations have been through a sleep and are still polling
C4_AllThreeStillPolling ==
    /\ killed # <<>>
    /\ \A l \in AllLoops : slept[l] > 0 /\ pc[l] \in InTry

IsBlank(title) == \A i \in 1..Len(title) : title[i] \in Whitespace

\* C5: an add with an empty or whitespace-only title leaves the task list
\* unchanged and surfaces no error.
C5_BlankTitleIsIgnored ==
    [][\A title \in TitleInputs, save_ok \in BOOLEAN :
          (add(title, save_ok) /\ IsBlank(title)) =>
              (tasks' = tasks /\ rendered' = rendered /\ error_shown' = error_shown)
      ]_vars

\* C5 witness: a whitespace-only title was submitted to a non-empty list and
\* no error is shown
C5_BlankSubmitted ==
    /\ submitted # <<>> /\ IsBlank(submitted)
    /\ tasks # <<>> /\ ~error_shown

\* C6: in the rendered list no completed task precedes an incomplete one, and
\* within each group the creation timestamps ascend.
C6_SortOrder ==
    \A i, j \in 1..Len(rendered) :
        i < j =>
            /\ ~(rendered[i].completed /\ ~rendered[j].completed)
            /\ rendered[i].completed = rendered[j].completed =>
                   LexLeq(rendered[i].created_at, rendered[j].created_at)

\* C6 witness: the sort moved a later, incomplete task in front of an earlier, completed one
C6_SortReordered ==
    /\ Len(rendered) >= 2 /\ rendered # filter_tasks(tasks, filter_mode)
    /\ ~rendered[1].completed /\ rendered[Len(rendered)].completed
    /\ rendered[1].created_at # rendered[Len(rendered)].created_at

\* C7: once a kill command was issued, end_task eventually has redrawn the
\* tree and returned control to the event loop.
C7_EndTaskReturns == (killed # <<>>) ~> (ui = "idle")

\* rows is data's projection to (name, pid, mem), one row per entry, by
\* descending memory value with ties in data's order
IsStableDescendingOf(rows, data) ==
    /\ Len(rows) = Len(data)
    /\ \E p \in Permutations(1..Len(data)) :
          /\ \A i \in 1..Len(data) :
                rows[i] = <<data[p[i]][1], data[p[i]][2], data[p[i]][3]>>
          /\ \A i, j \in 1..Len(data) :
                i < j => \/ data[p[i]][4] > data[p[j]][4]
                         \/ data[p[i]][4] = data[p[j]][4] /\ p[i] < p[j]

\* C8: every run of update_ui_processes on the Processes tab leaves the tree
\* holding exactly the (name, pid, mem) rows of the processes_data it read,
\* by descending memory value, ties in fetched order.
C8_TreeIsSortedProjection ==
    [][(update_ui_processes /\ current_tab = "Processes") =>
           (IsStableDescendingOf(tree', processes_data) /\ selection' = 0)
      ]_vars

\* C8 witness: the tree shows a fetched list of two or more entries in another
\* order than the fetched one
C8_TreeReordered ==
    /\ current_tab = "Processes" /\ Len(tree) >= 2
    /\ IsStableDescendingOf(tree, processes_data)
    /\ tree # [i \in 1..Len(processes_data) |->
                  <<processes_data[i][1], processes_data[i][2], processes_data[i][3]>>]

\* the entry line 200 appends for a row
EntryOf(row) == <<row[1], row[2], row[5], int_of_digits(re_sub_nondigits(row[5]))>>

LongRow(row) == Len(row) >= 5

\* the whole list of an output: one entry per row of five or more fields
CompleteList(output) ==
    LET long == SelectSeq(output, LongRow)
    IN  [i \in 1..Len(long) |-> EntryOf(long[i])]

HasDigit(mem) == \E i \in 1..Len(mem) : mem[i] \in Digits

\* an output with a row of five or more fields whose memory field has no digit
Malformed(output) ==
    \E i \in 1..Len(output) : Len(output[i]) >= 5 /\ ~HasDigit(output[i][5])

\* C9: processes_data is always the initial empty list or the complete list
\* of one tasklist output that parsed without error, never a part of one.
C9_NeverAPartialList ==
    /\ processes_data = CompleteList(src_output)
    /\ ~Malformed(src_output)

\* C9 witness: a list of two entries, published from an output of two or more
\* rows, is what the tree shows
C9_WholeListShown ==
    /\ Len(processes_data) = 2 /\ Len(src_output) >= 2
    /\ tree = refill(processes_data)

MalformedOutputs == {output \in Outputs : Malformed(output)}

\* C10: an iteration of loop_fetch_processes whose command fails, or whose
\* output has a row of five or more fields with no digit in the memory
\* field, ends in the handler and leaves processes_data as it was.
C10_FailedFetchPublishesNothing ==
    [][\A l \in Loops :
        (pc[l] = "try" /\ pc'[l] # "try") =>
            /\ pc'[l] = "except" => processes_data' = processes_data
            /\ pc'[l] # "except" =>
                   /\ \A output \in Outputs : ~try_processes(l, FALSE, output)
                   /\ \A output \in MalformedOutputs : ~try_processes(l, TRUE, output)
      ]_vars

\* C10 witness: a fetch failed in the handler while the list published before it stands
C10_FailedAfterAPublishedList ==
    /\ pc["thread_procs"] = "except"
    /\ processes_data # <<>> /\ processes_data = CompleteList(src_output)

\* C11: taskkill is issued only by a confirmed end_task on a selected row,
\* for the PID column of that row; an end_task with no selection only shows
\* the warning, and one answered no does nothing: both leave
\* processes_data, the tree, the selection and the pollers as they were.
C11_KillOnlySelectedAndConfirmed ==
    [][/\ killed' # killed =>
              /\ ui = "idle" /\ current_tab = "Processes"
              /\ selection \in 1..Len(tree)
              /\ killed' = Append(killed, tree[selection][2])
              /\ \E run_ok \in BOOLEAN : end_task(TRUE, run_ok)
       /\ \A yes \in BOOLEAN, run_ok \in BOOLEAN :
              (end_task(yes, run_ok) /\ selection = 0) =>
                  /\ dialog' = "No Selection"
                  /\ UNCHANGED <<killed, processes_data, tree, selection, pollVars, ui>>
       /\ \A run_ok \in BOOLEAN :
              (end_task(FALSE, run_ok) /\ selection # 0) =>
                  UNCHANGED <<killed, dialog, processes_data, tree, selection, pollVars, ui>>
      ]_vars

\* C11 witness: after a warning for a click without selection, the second of
\* two rows was selected and confirmed, and its PID is the one killed
C11_SecondRowKilled ==
    /\ dialog = "No Selection"
    /\ Len(tree) = 2 /\ selection = 2
    /\ killed = <<tree[2][2]>>

\* C12: each UI updater has at most one pending root.after callback in every
\* reachable state.
C12_OnePendingCallbackEach ==
    /\ after_procs <= 1
    /\ after_perf <= 1

\* C12 witness: both updaters have drawn, End Task was confirmed, and each
\* has exactly one callback pending
C12_BothChainsSingleAfterEndTask ==
    /\ killed # <<>>
    /\ tree # <<>> /\ lbl_mem_val # <<0, 0>>
    /\ after_procs = 1 /\ after_perf = 1

====
